---- MODULE Spec2Model ----
(***************************************************************************)
(* Model of the migration pipeline of readthedocs-assistant:               *)
(*   src/src/readthedocs_assistant/migrators.py                            *)
(*   src/src/readthedocs_assistant/commands/migrate_config.py              *)
(*   src/src/readthedocs_assistant/config.py, types.py, cli.py             *)
(*                                                                         *)
(* A configuration is a Python dict whose nested mappings (build,          *)
(* build.tools, python) are separate heap objects.  dict.copy() is a       *)
(* shallow copy, so the heap is modelled explicitly: every dict lives at   *)
(* an address and a parent holds the address of its child.                 *)
(***************************************************************************)
EXTENDS Integers, Sequences, FiniteSets, TLC

VARIABLES
    heap,        \* the Python heap: the dicts reachable from the configurations
    config,      \* migrate_config: `config`, address of the parsed document
    new_config,  \* apply_migrators: `new_config`, address of the current document
    applied,     \* apply_migrators: `applied`, one flag per finished step
    migrators,   \* migrate_config argument: the ordered list of migrator names
    dry_run,     \* migrate_config argument
    pc,          \* position of migrate_config: "apply", "classify", "done", "raised"
    raised,      \* the exception that left migrate_config ("none" if none)
    outcome,     \* the branch migrate_config took after apply_migrators
    published,   \* TRUE once fork_and_update has been called
    result,      \* migrate_config: what apply_migrators returned, if it did
    orig,        \* the value of the document as it was parsed (history)
    calls,       \* one record per Migrator.migrate call made so far (history)
    classes,     \* the Migrator subclasses defined so far, by name, in order
    registry,    \* Migrator.registry: name -> index in `classes`
    migrator_names, \* cli.main: the --migrator-names option, already split
    dump         \* yaml.dump(..., Dumper=RTDDumper): the mapping and its key order

\* the state the pipeline itself never writes
aux == <<classes, registry, migrator_names, dump>>

vars == <<heap, config, new_config, applied, migrators, dry_run, pc, raised,
          outcome, published, result, orig, calls, aux>>

\* Longest migrator list handed to migrate_config.
MaxPipeline == 2

-----------------------------------------------------------------------------
(* Scalar values.  A YAML scalar is a string, a float or a list; strings   *)
(* are sequences of characters so that `in` and str() are computed.        *)

NoVal == [t |-> "none", w |-> 0, f |-> 0, s |-> << >>]
StrVal(chars) == [t |-> "str", w |-> 0, f |-> 0, s |-> chars]
FloatVal(whole, frac) == [t |-> "float", w |-> whole, f |-> frac, s |-> << >>]
ListVal(items) == [t |-> "list", w |-> 0, f |-> 0, s |-> items]
MapVal(items) == [t |-> "map", w |-> 0, f |-> 0, s |-> items]

Digit == [d \in 0..9 |-> CASE d = 0 -> "0" [] d = 1 -> "1" [] d = 2 -> "2"
                           [] d = 3 -> "3" [] d = 4 -> "4" [] d = 5 -> "5"
                           [] d = 6 -> "6" [] d = 7 -> "7" [] d = 8 -> "8"
                           [] OTHER -> "9"]

\* str(x) of Python for the scalars of the model (a float prints as w.f).
PyStr(v) ==
    IF v.t = "float" THEN StrVal(<<Digit[v.w], ".", Digit[v.f]>>)
    ELSE IF v.t = "str" THEN v
    ELSE StrVal(<<"[", "]">>)

\* isinstance(x, str)
IsStr(v) == v.t = "str"

\* `p in s` of Python for two strings: p is a contiguous part of s.
StrContains(p, s) ==
    \E i \in 0..(Len(s) - Len(p)) : SubSeq(s, i + 1, i + Len(p)) = p

\* bool(x) of Python for a list.
Truthy(v) == Len(v.s) > 0

S_37 == <<"3", ".", "7">>
S_38 == <<"3", ".", "8">>
S_39 == <<"3", ".", "9">>
S_miniconda == <<"m", "i", "n", "i", "c", "o", "n", "d", "a">>
S_mamba == <<"m", "a", "m", "b", "a">>
S_miniconda3_47 == S_miniconda \o <<"3", "-", "4", ".", "7">>
S_mambaforge_410 == S_mamba \o <<"f", "o", "r", "g", "e", "-", "4", ".", "1", "0">>
S_ubuntu_2004 == <<"u", "b", "u", "n", "t", "u", "-", "2", "0", ".", "0", "4">>
S_latest == <<"l", "a", "t", "e", "s", "t">>

\* UseMamba.mamba_python_version
mamba_python_version == StrVal(S_mambaforge_410)

-----------------------------------------------------------------------------
(* Dicts.  `keys` is the set of keys present; a field whose key is absent  *)
(* holds its blank value, so that equal dicts are equal records.           *)

TopDict(ks, version, conda, formats, build, python) ==
    [keys |-> ks, version |-> version, conda |-> conda, formats |-> formats,
     build |-> build, python |-> python]
BuildDict(ks, image, os, apt, tools) ==
    [keys |-> ks, image |-> image, os |-> os, apt_packages |-> apt, tools |-> tools]
ToolsDict(ks, python) == [keys |-> ks, python |-> python]
PythonDict(ks, version, install) == [keys |-> ks, version |-> version, install |-> install]

\* The value of a document: what Python's == on dicts compares (deep, by value).
ToolsValue(h, a) == IF a = 0 THEN ToolsDict({}, NoVal) ELSE h.tools[a]
BuildValue(h, a) ==
    IF a = 0 THEN [keys |-> {}, image |-> NoVal, os |-> NoVal, apt_packages |-> NoVal,
                   tools |-> ToolsValue(h, 0)]
    ELSE [h.build[a] EXCEPT !.tools = ToolsValue(h, h.build[a].tools)]
PythonValue(h, a) == IF a = 0 THEN PythonDict({}, NoVal, NoVal) ELSE h.python[a]
DocValue(h, c) ==
    [h.top[c] EXCEPT !.build = BuildValue(h, h.top[c].build),
                     !.python = PythonValue(h, h.top[c].python)]

\* variant: a missing version counts as the current one
GetVersion_default_2(h, c) == IF "version" \in h.top[c].keys THEN h.top[c].version ELSE 2

\* config.get("version", 1)
GetVersion(h, c) == IF "version" \in h.top[c].keys THEN h.top[c].version ELSE 1

\* config.get("build", {}) and config.get("python", {}): 0 stands for the fresh {}
GetBuild(h, c) == IF "build" \in h.top[c].keys THEN h.top[c].build ELSE 0
GetPython(h, c) == IF "python" \in h.top[c].keys THEN h.top[c].python ELSE 0

\* "tools" in config.get("build", {})
HasBuildTools(h, c) == GetBuild(h, c) # 0 /\ "tools" \in h.build[GetBuild(h, c)].keys

\* config.get("build", {}).get("tools", {}).get("python", dflt)
GetToolsPython(h, c, dflt) ==
    IF ~HasBuildTools(h, c) THEN dflt
    ELSE LET t == h.tools[h.build[GetBuild(h, c)].tools]
         IN IF "python" \in t.keys THEN t.python ELSE dflt

\* config.get("python", {}).get("version", dflt)
GetPythonVersion(h, c, dflt) ==
    IF GetPython(h, c) = 0 THEN dflt
    ELSE LET p == h.python[GetPython(h, c)]
         IN IF "version" \in p.keys THEN p.version ELSE dflt

\* "version" in config.get("python", {})
HasPythonVersion(h, c) ==
    GetPython(h, c) # 0 /\ "version" \in h.python[GetPython(h, c)].keys

\* config.get("build", {}).get("apt_packages", [])
GetAptPackages(h, c) ==
    IF GetBuild(h, c) = 0 THEN ListVal(<< >>)
    ELSE LET b == h.build[GetBuild(h, c)]
         IN IF "apt_packages" \in b.keys THEN b.apt_packages ELSE ListVal(<< >>)

\* config.copy(): a new top-level dict holding the same child objects.
CopyConfig(h, c) == [h EXCEPT !.top = Append(@, h.top[c])]
NewTop(h) == Len(h.top) + 1

-----------------------------------------------------------------------------
(* Schema validation (config.py validate_config).  The schema is the v2    *)
(* schema named by SCHEMA_URL; its shape is the one types.py spells out.   *)

\* types.py Formats / RTDConfig.formats: a list of format names
ValidFormats(v) == v.t = "list"

\* types.py Build: exactly one of the legacy shape (image, apt_packages) and
\* the current shape (os and tools required, apt_packages optional)
\* variant: any value is accepted for tools.python
ValidTools_any(t) == TRUE

ValidTools(t) == "python" \in t.keys => IsStr(t.python)
ValidBuild(h, a) ==
    LET b == h.build[a]
        legacy == b.keys \subseteq {"image", "apt_packages"}
        current == /\ {"os", "tools"} \subseteq b.keys
                   /\ b.keys \subseteq {"os", "tools", "apt_packages"}
                   /\ b.os = StrVal(S_ubuntu_2004)
                   /\ ValidTools(h.tools[b.tools])
    IN  /\ legacy \/ current
        /\ "image" \in b.keys => IsStr(b.image)
        /\ "apt_packages" \in b.keys => b.apt_packages.t = "list"

\* types.py Python: version is a string, install a list
ValidPython(p) ==
    /\ "version" \in p.keys => IsStr(p.version)
    /\ "install" \in p.keys => p.install.t = "list"

\* jsonschema.validate(instance=config, schema=schema) does not raise
ValidConfig(h, c) ==
    LET d == h.top[c]
    IN  /\ "version" \in d.keys /\ d.version = 2
        /\ "formats" \in d.keys => ValidFormats(d.formats)
        /\ "conda" \in d.keys => d.conda.t = "map"
        /\ "build" \in d.keys => ValidBuild(h, d.build)
        /\ "python" \in d.keys => ValidPython(h.python[d.python])

-----------------------------------------------------------------------------
(* The migrators.  do_migrate yields the heap it leaves behind, the        *)
(* address it returns and its flag, or the exception it raises.            *)

Returns(h, c, flag) == [heap |-> h, config |-> c, applied |-> flag, raised |-> "none"]
Raises(h, exc) == [heap |-> h, config |-> 0, applied |-> FALSE, raised |-> exc]

\* FixPythonVersion: new_config["python"]["version"] = str(...) on the copy
FixPythonVersion_assign(h, n) ==
    [h EXCEPT !.python[h.top[n].python].version = PyStr(@)]

FixPythonVersion_do_migrate(h, c) ==
    IF ~HasPythonVersion(h, c) THEN Returns(h, c, FALSE)
    ELSE IF IsStr(GetPythonVersion(h, c, NoVal)) THEN Returns(h, c, FALSE)
    ELSE Returns(FixPythonVersion_assign(CopyConfig(h, c), NewTop(h)), NewTop(h), TRUE)

\* variant: the conda key is not looked at
UseBuildTools_python_version_no_conda(h, c, n) ==
    GetPythonVersion(h, c, StrVal(S_37))

\* variant: python.version, when set, wins over the conda sentinel
UseBuildTools_python_version_first(h, c, n) ==
    IF HasPythonVersion(h, c) THEN GetPythonVersion(h, c, StrVal(S_37))
    ELSE IF "conda" \in h.top[n].keys THEN StrVal(S_miniconda3_47)
    ELSE StrVal(S_37)

\* UseBuildTools: the version written to build.tools.python
UseBuildTools_python_version(h, c, n) ==
    IF "conda" \in h.top[n].keys THEN StrVal(S_miniconda3_47)
    ELSE GetPythonVersion(h, c, StrVal(S_37))

\* UseBuildTools: new_config["build"] = {"os": ..., "tools": {"python": ...}}
UseBuildTools_set_build(h, n, python_version) ==
    LET ta == Len(h.tools) + 1
        ba == Len(h.build) + 1
    IN  [h EXCEPT !.tools = Append(@, ToolsDict({"python"}, python_version)),
                  !.build = Append(@, BuildDict({"os", "tools"}, NoVal,
                                                StrVal(S_ubuntu_2004), NoVal, ta)),
                  !.top[n] = [@ EXCEPT !.keys = @ \cup {"build"}, !.build = ba]]

\* UseBuildTools: if apt_packages := new_config.get("build", {}).get(...)
UseBuildTools_apt_packages(h, n) ==
    LET apt_packages == GetAptPackages(h, n)
    IN  IF Truthy(apt_packages)
        THEN [h EXCEPT !.build[h.top[n].build] =
                  [@ EXCEPT !.keys = @ \cup {"apt_packages"},
                            !.apt_packages = apt_packages]]
        ELSE h

\* UseBuildTools: new_config.get("python", {}).pop("version", None)
UseBuildTools_pop_version(h, n) ==
    IF GetPython(h, n) = 0 THEN h
    ELSE [h EXCEPT !.python[GetPython(h, n)] =
              [@ EXCEPT !.keys = @ \ {"version"}, !.version = NoVal]]

\* variant: an emptied python mapping is left in place
UseBuildTools_keep_empty_python(h, n) == h

\* UseBuildTools: if "python" in new_config and not new_config["python"]: pop
UseBuildTools_drop_empty_python(h, n) ==
    IF "python" \in h.top[n].keys /\ h.python[h.top[n].python].keys = {}
    THEN [h EXCEPT !.top[n] = [@ EXCEPT !.keys = @ \ {"python"}, !.python = 0]]
    ELSE h

\* variant: the early return on an existing build.tools is missing
UseBuildTools_already_never(h, c) == FALSE

\* UseBuildTools: if "tools" in config.get("build", {}): nothing to do
UseBuildTools_already(h, c) == HasBuildTools(h, c)

UseBuildTools_do_migrate(h, c) ==
    IF GetVersion(h, c) < 2 THEN Raises(h, "MigrationError")
    ELSE IF UseBuildTools_already(h, c) THEN Returns(h, c, FALSE)
    ELSE LET n == NewTop(h)
             h1 == CopyConfig(h, c)
             h2 == UseBuildTools_set_build(h1, n, UseBuildTools_python_version(h1, c, n))
             h3 == UseBuildTools_apt_packages(h2, n)
             h4 == UseBuildTools_pop_version(h3, n)
             h5 == UseBuildTools_drop_empty_python(h4, n)
         IN  Returns(h5, n, TRUE)

\* variant: the copy gets a new build holding nothing but the new tools
UseMamba_assign_new_build(h, n) ==
    LET ta == Len(h.tools) + 1
        ba == Len(h.build) + 1
    IN  [h EXCEPT !.tools = Append(@, ToolsDict({"python"}, mamba_python_version)),
                  !.build = Append(@, BuildDict({"tools"}, NoVal, NoVal, NoVal, ta)),
                  !.top[n] = [@ EXCEPT !.build = ba]]

\* UseMamba: new_config["build"]["tools"]["python"] = self.mamba_python_version
UseMamba_assign(h, n) ==
    LET ta == h.build[h.top[n].build].tools
    IN  [h EXCEPT !.tools[ta] = [@ EXCEPT !.keys = @ \cup {"python"},
                                          !.python = mamba_python_version]]

\* variant: the early return on an already migrated document is missing
UseMamba_already_never(python_version) == FALSE

\* UseMamba: python_version == self.mamba_python_version
UseMamba_already(python_version) == python_version = mamba_python_version

\* variant: the check looks for the wrong marker
UseMamba_lacks_marker_mamba(python_version) == ~StrContains(S_mamba, python_version.s)

\* UseMamba: elif "miniconda" not in python_version
UseMamba_lacks_marker(python_version) == ~StrContains(S_miniconda, python_version.s)

UseMamba_do_migrate(h, c) ==
    IF GetVersion(h, c) < 2 THEN Raises(h, "MigrationError")
    ELSE IF "conda" \notin h.top[c].keys THEN Raises(h, "MigrationError")
    ELSE LET python_version == GetToolsPython(h, c, StrVal(<< >>))
         IN  IF UseMamba_already(python_version) THEN Returns(h, c, FALSE)
             ELSE IF ~IsStr(python_version) THEN Raises(h, "TypeError")
             ELSE IF UseMamba_lacks_marker(python_version)
                  THEN Raises(h, "MigrationError")
             ELSE IF StrContains(S_mamba, python_version.s) THEN Returns(h, c, FALSE)
             ELSE Returns(UseMamba_assign(CopyConfig(h, c), NewTop(h)), NewTop(h), TRUE)

\* Migrator.registry, filled by __init_subclass__ as each class is defined
Registry == {"FixPythonVersion", "UseBuildTools", "UseMamba"}

do_migrate(name, h, c) ==
    CASE name = "FixPythonVersion" -> FixPythonVersion_do_migrate(h, c)
      [] name = "UseBuildTools" -> UseBuildTools_do_migrate(h, c)
      [] OTHER -> UseMamba_do_migrate(h, c)

\* variant: the produced configuration is not validated
Migrator_validate_skipped(h, c) == "none"

\* Migrator.__validate: a ValidationError becomes a MigrationError
Migrator_validate(h, c) == IF ValidConfig(h, c) THEN "none" ELSE "MigrationError"

\* Migrator.migrate: do_migrate, then validation of what it produced.  The
\* record keeps migrate's locals (new_config, migration_applied) next to what
\* the call hands back.
Migrator_migrate(name, h, c) ==
    LET r == do_migrate(name, h, c)
        exc == IF r.raised # "none" THEN r.raised ELSE Migrator_validate(r.heap, r.config)
    IN  [heap |-> r.heap,
         new_config |-> r.config,
         migration_applied |-> r.applied,
         raised_in |-> IF r.raised # "none" THEN "do_migrate"
                       ELSE IF exc # "none" THEN "validate" ELSE "none",
         raised |-> exc]

-----------------------------------------------------------------------------
(* The registry.  Every class statement that subclasses Migrator runs      *)
(* __init_subclass__, which stores the class under its __name__.           *)

\* a heap with no dict in it: no document has been loaded
EmptyHeap == [top |-> << >>, build |-> << >>, tools |-> << >>, python |-> << >>]

\* the value of a document that has not been loaded
NoDocument == [keys |-> {}]

\* Most class statements deriving from Migrator in one import.
MaxClasses == 4

\* Migrator.__init_subclass__: cls.registry[cls.__name__] = cls
init_subclass(reg, name, cls) ==
    [n \in DOMAIN reg \cup {name} |-> IF n = name THEN cls ELSE reg[n]]

\* registry = {}
EmptyRegistry == [n \in {} |-> 0]

\* the class statements of migrators.py, in the order they run at import
ModuleClasses == <<"FixPythonVersion", "UseBuildTools", "UseMamba">>

RECURSIVE RegistryAfter(_)
\* the registry once the class statements `cs` have run
RegistryAfter(cs) ==
    IF cs = << >> THEN EmptyRegistry
    ELSE init_subclass(RegistryAfter(SubSeq(cs, 1, Len(cs) - 1)), cs[Len(cs)], Len(cs))

\* nothing has been dumped
NoDump == [top |-> {}, nested |-> {}, done |-> FALSE,
           out_top |-> << >>, out_nested |-> << >>]

-----------------------------------------------------------------------------
(* The documents migrate_config may load.  load_and_validate_config is     *)
(* called with raise_error=False, so invalid documents go on as well.      *)

InputToolsPython ==
    {NoVal, StrVal(S_39), StrVal(S_miniconda3_47), mamba_python_version, FloatVal(3, 9)}

InputApt == {ListVal(<< >>), ListVal(<<"graphviz">>)}

LegacyBuilds ==
    {[b |-> BuildDict(ks, IF "image" \in ks THEN StrVal(S_latest) ELSE NoVal, NoVal,
                      IF "apt_packages" \in ks THEN a ELSE NoVal, 0),
      t |-> ToolsDict({}, NoVal)] :
        ks \in (SUBSET {"image", "apt_packages"}) \ {{}}, a \in InputApt}

CurrentBuilds ==
    {[b |-> BuildDict(ks, IF "image" \in ks THEN StrVal(S_latest) ELSE NoVal,
                      StrVal(S_ubuntu_2004),
                      IF "apt_packages" \in ks THEN ListVal(<<"graphviz">>) ELSE NoVal, 1),
      t |-> ToolsDict(IF tp = NoVal THEN {} ELSE {"python"}, tp)] :
        ks \in {{"os", "tools"}, {"os", "tools", "apt_packages"}, {"os", "tools", "image"}},
        tp \in InputToolsPython}

InputBuilds == LegacyBuilds \cup CurrentBuilds

InputPythons ==
    {PythonDict((IF v = NoVal THEN {} ELSE {"version"}) \cup
                (IF i = NoVal THEN {} ELSE {"install"}), v, i) :
        v \in {NoVal, StrVal(S_38), FloatVal(3, 8)},
        i \in {NoVal, ListVal(<<"requirements.txt">>)}}

InputFormats == {NoVal, ListVal(<<"pdf">>), FloatVal(3, 8)}
InputConda == {NoVal, MapVal(<<"environment.yml">>)}
InputVersions == {0, 1, 2}

\* The heap right after yaml.load: the top-level dict and its children.
LoadedHeap(version, conda, formats, hasBuild, bt, hasPython, py) ==
    [top |-> <<TopDict((IF version = 0 THEN {} ELSE {"version"})
                         \cup (IF conda = NoVal THEN {} ELSE {"conda"})
                         \cup (IF formats = NoVal THEN {} ELSE {"formats"})
                         \cup (IF hasBuild THEN {"build"} ELSE {})
                         \cup (IF hasPython THEN {"python"} ELSE {}),
                       version, conda, formats,
                       IF hasBuild THEN 1 ELSE 0, IF hasPython THEN 1 ELSE 0)>>,
     build |-> IF hasBuild THEN <<bt.b>> ELSE << >>,
     tools |-> IF hasBuild /\ bt.b.tools = 1 THEN <<bt.t>> ELSE << >>,
     python |-> IF hasPython THEN <<py>> ELSE << >>]

Pipelines == UNION {[1..n -> Registry] : n \in 1..MaxPipeline}

NoResult == [returned |-> FALSE, new_config |-> 0, applied |-> << >>]

\* h is the heap yaml.load leaves for one of the documents
Loaded(h) ==
    \E version \in InputVersions, conda \in InputConda, formats \in InputFormats,
       hasBuild \in BOOLEAN, bt \in InputBuilds, hasPython \in BOOLEAN,
       py \in InputPythons :
         /\ hasBuild \/ bt = CHOOSE x \in InputBuilds : TRUE
         /\ hasPython \/ py = CHOOSE x \in InputPythons : TRUE
         /\ h = LoadedHeap(version, conda, formats, hasBuild, bt, hasPython, py)

Init ==
    /\ Loaded(heap)
    /\ config = 1
    /\ new_config = 1
    /\ applied = << >>
    /\ migrators \in Pipelines
    /\ dry_run \in BOOLEAN
    /\ pc = "apply"
    /\ raised = "none"
    /\ outcome = "none"
    /\ published = FALSE
    /\ result = NoResult
    /\ orig = DocValue(heap, 1)
    /\ calls = << >>
    /\ classes = ModuleClasses
    /\ registry = RegistryAfter(ModuleClasses)
    /\ migrator_names = migrators
    /\ dump = NoDump

-----------------------------------------------------------------------------
(* apply_migrators: one loop iteration per action.                         *)

\* variant: every migrator is handed the original document
StepInput_original == config

\* the document handed to migrator.migrate(...) in the loop body
StepInput == new_config

\* what the loop does when migrate raises: the exception leaves the loop
OnRaise(exc) ==
    /\ pc' = "raised"
    /\ raised' = exc
    /\ UNCHANGED <<new_config, applied>>

\* the loop body for the migrator class `name`
Step(name) ==
    /\ LET r == Migrator_migrate(name, heap, StepInput)
       IN  /\ heap' = r.heap
           /\ calls' = Append(calls, [migrator |-> name,
                                      input |-> StepInput,
                                      pre |-> DocValue(heap, StepInput),
                                      pre_valid |-> ValidConfig(heap, StepInput),
                                      pre_heap |-> heap,
                                      new_config |-> r.new_config,
                                      migration_applied |-> r.migration_applied,
                                      raised_in |-> r.raised_in,
                                      raised |-> r.raised])
           /\ IF r.raised = "none"
              THEN /\ new_config' = r.new_config
                   /\ applied' = Append(applied, r.migration_applied)
                   /\ UNCHANGED <<pc, raised>>
              ELSE OnRaise(r.raised)
    /\ UNCHANGED <<config, migrators, dry_run, outcome, published, result, orig, aux>>

\* for migrator in migrators: the class of the next migrator, if one is left
NextMigrator ==
    IF pc = "apply" /\ Len(applied) < Len(migrators)
    THEN migrators[Len(applied) + 1] ELSE "none"

StepFixPythonVersion ==
    /\ NextMigrator = "FixPythonVersion"
    /\ Step("FixPythonVersion")

StepUseBuildTools ==
    /\ NextMigrator = "UseBuildTools"
    /\ Step("UseBuildTools")

StepUseMamba ==
    /\ NextMigrator = "UseMamba"
    /\ Step("UseMamba")

\* return new_config, applied
ApplyReturn ==
    /\ pc = "apply"
    /\ Len(applied) = Len(migrators)
    /\ result' = [returned |-> TRUE, new_config |-> new_config, applied |-> applied]
    /\ pc' = "classify"
    /\ UNCHANGED <<heap, config, new_config, applied, migrators, dry_run, raised,
                   outcome, published, orig, calls, aux>>

\* any(applied)
AnyApplied(flags) == \E i \in 1..Len(flags) : flags[i]

\* migrate_config: new_config == config, on the objects as they now are
SameAsConfig(h, n, c) == DocValue(h, n) = DocValue(h, c)

\* migrate_config after apply_migrators returned: the three branches
Classify ==
    /\ pc = "classify"
    /\ outcome' = IF ~AnyApplied(result.applied) THEN "no-op"
                  ELSE IF SameAsConfig(heap, result.new_config, config) THEN "unchanged"
                  ELSE "change-required"
    /\ published' = (outcome' = "change-required" /\ ~dry_run)
    /\ pc' = "done"
    /\ UNCHANGED <<heap, config, new_config, applied, migrators, dry_run, raised,
                   result, orig, calls, aux>>

Next ==
    \/ StepFixPythonVersion
    \/ StepUseBuildTools
    \/ StepUseMamba
    \/ ApplyReturn
    \/ Classify

Spec == Init /\ [][Next]_vars

-----------------------------------------------------------------------------
(* Helpers of the properties.                                              *)

Called == Len(calls) > 0
Last == calls[Len(calls)]

\* the last migrate call handed a document back to the loop
LastReturned == Called /\ Last.raised = "none"
\* do_migrate of the last call came back with a document (validation may follow)
LastProduced == Called /\ Last.raised_in # "do_migrate"
\* the value, now, of what do_migrate of the last call produced
LastOut == DocValue(heap, Last.new_config)

IsV2(d) == "version" \in d.keys /\ d.version >= 2
IsConda(d) == "conda" \in d.keys
HasTools(d) == "tools" \in d.build.keys

-----------------------------------------------------------------------------
\* C1: no migrator mutates its input: after migrate returns, the document
\* that was passed in still has the value it had before the call, and when
\* applied=true the returned document shares no nested mapping with it.
C1_InputNotMutated ==
    LastReturned =>
        /\ DocValue(heap, Last.input) = Last.pre
        /\ Last.migration_applied =>
              LET i == heap.top[Last.input]
                  o == heap.top[Last.new_config]
              IN  /\ "build" \in o.keys /\ "build" \in i.keys => o.build # i.build
                  /\ "python" \in o.keys /\ "python" \in i.keys => o.python # i.python

\* C2: migrate_config calls fork_and_update exactly when dry_run is false,
\* some migrator reported applied=true and the final document differs from
\* the document as it was parsed.
C2_PublishIffChanged ==
    pc = "done" =>
        (published <=> /\ ~dry_run
                       /\ AnyApplied(result.applied)
                       /\ DocValue(heap, result.new_config) # orig)

\* C3: every migrator is idempotent: when the same migrator is called on the
\* document its previous call returned, the second call raises nothing,
\* reports applied=false and returns a document equal to the one it was given.
C3_Idempotent ==
    (Len(calls) >= 2 /\ calls[Len(calls) - 1].migrator = Last.migrator) =>
        /\ Last.raised = "none"
        /\ ~Last.migration_applied
        /\ LastOut = Last.pre
        /\ Last.input = calls[Len(calls) - 1].new_config

C3_Witness ==
    /\ Len(calls) = 2
    /\ calls[1].migrator = calls[2].migrator
    /\ calls[1].migration_applied
    /\ calls[2].raised = "none"

\* C4: validity is a post-condition of migrate: a document migrate returns
\* validates against the schema, and when do_migrate produces a document that
\* does not validate, migrate raises MigrationError and returns nothing.
C4_ValidOrMigrationError ==
    /\ LastReturned => ValidConfig(heap, Last.new_config)
    /\ (LastProduced /\ ~ValidConfig(heap, Last.new_config)) =>
          /\ Last.raised = "MigrationError"
          /\ pc = "raised"
          /\ raised = "MigrationError"
          /\ new_config = Last.input
          /\ result = NoResult
    /\ (Called /\ pc # "raised") => ValidConfig(heap, new_config)

C4_Witness ==
    /\ Called
    /\ Last.raised_in = "validate"
    /\ Last.migration_applied
    /\ ~ValidConfig(heap, Last.new_config)

\* C5: UseBuildTools preserves build.apt_packages: for a version-2 document
\* without build.tools whose build has a non-empty apt_packages list, the
\* migrated document's build.apt_packages equals the input's.
C5_AptPackagesPreserved ==
    (/\ LastProduced
     /\ Last.migrator = "UseBuildTools"
     /\ IsV2(Last.pre) /\ ~HasTools(Last.pre)
     /\ "apt_packages" \in Last.pre.build.keys
     /\ Truthy(Last.pre.build.apt_packages)) =>
        /\ "apt_packages" \in LastOut.build.keys
        /\ LastOut.build.apt_packages = Last.pre.build.apt_packages

\* the sections UseBuildTools leaves alone validate (formats, conda, python.install)
OtherSectionsValid(d) ==
    /\ "formats" \in d.keys => ValidFormats(d.formats)
    /\ "conda" \in d.keys => d.conda.t = "map"
    /\ "install" \in d.python.keys => d.python.install.t = "list"

C6_Doc == IsV2(orig) /\ IsConda(orig) /\ ~HasTools(orig)
C6_MambaFirst == migrators = <<"UseMamba", "UseBuildTools">>
C6_ToolsFirst == migrators = <<"UseBuildTools", "UseMamba">>
C6_Succeeded ==
    /\ result.applied = <<TRUE, TRUE>>
    /\ DocValue(heap, result.new_config).build.tools.python = mamba_python_version

\* C6 (as stated): for every version-2 Conda document without build.tools,
\* [UseMamba, UseBuildTools] fails with MigrationError, while
\* [UseBuildTools, UseMamba] succeeds with applied=true for both steps and
\* ends with build.tools.python = "mambaforge-4.10".
C6_OrderingDependency ==
    C6_Doc =>
        /\ (C6_MambaFirst /\ Called) =>
              pc = "raised" /\ raised = "MigrationError" /\ Len(calls) = 1
        /\ C6_ToolsFirst =>
              /\ pc # "raised"
              /\ result.returned => C6_Succeeded

\* C6 (amended): as above, but [UseBuildTools, UseMamba] succeeds only when
\* the sections UseBuildTools leaves alone validate; when they do not, the
\* first step raises MigrationError from its validation.
C6_OrderingDependencyValid ==
    C6_Doc =>
        /\ (C6_MambaFirst /\ Called) =>
              pc = "raised" /\ raised = "MigrationError" /\ Len(calls) = 1
        /\ (C6_ToolsFirst /\ OtherSectionsValid(orig)) =>
              /\ pc # "raised"
              /\ result.returned => C6_Succeeded
        /\ (C6_ToolsFirst /\ ~OtherSectionsValid(orig) /\ Called) =>
              /\ pc = "raised" /\ raised = "MigrationError" /\ Len(calls) = 1
              /\ Last.raised_in = "validate"

C6_Witness ==
    pc = "done" /\ C6_Doc /\ C6_ToolsFirst /\ C6_Succeeded

\* C7: apply_migrators calls the migrators in list order, each on the output
\* of the one before, and returns one flag per migrator in that order; when a
\* step raises, the exception leaves at once: no later migrator is called and
\* nothing is returned.
C7_InOrderAbortOnError ==
    /\ Len(calls) <= Len(migrators)
    /\ \A i \in 1..Len(calls) :
          /\ calls[i].migrator = migrators[i]
          /\ calls[i].input = IF i = 1 THEN config ELSE calls[i - 1].new_config
          /\ i < Len(calls) => calls[i].raised = "none"
    /\ \A i \in 1..Len(applied) : applied[i] = calls[i].migration_applied
    /\ (Called /\ Last.raised # "none") =>
          /\ pc = "raised" /\ raised = Last.raised
          /\ result = NoResult
          /\ NextMigrator = "none"
    /\ (Called /\ Last.raised = "none") => Len(applied) = Len(calls)
    /\ result.returned =>
          /\ Len(result.applied) = Len(migrators)
          /\ result.applied = applied
          /\ result.new_config = Last.new_config

C7_Witness ==
    /\ pc = "raised"
    /\ Len(migrators) = 2
    /\ Len(calls) = 1

C9_EmptyParentCleanup ==
    (LastProduced /\ Last.migrator = "UseBuildTools" /\ Last.migration_applied) =>
        /\ "version" \notin LastOut.python.keys
        /\ "python" \in LastOut.keys => LastOut.python.keys # {}
        /\ "python" \notin LastOut.keys <=> Last.pre.python.keys \ {"version"} = {}
        /\ LastOut.python.keys = Last.pre.python.keys \ {"version"}
        /\ LastOut.python.install = Last.pre.python.install

C9_Witness ==
    /\ LastReturned
    /\ Last.migrator = "UseBuildTools"
    /\ Last.migration_applied
    /\ Last.pre.python.keys = {"version"}
    /\ "python" \notin LastOut.keys

\* the migrator finds its target already in the desired state
NotApplicable(name, d) ==
    CASE name = "UseBuildTools" -> IsV2(d) /\ HasTools(d)
      [] name = "UseMamba" ->
            /\ IsV2(d) /\ IsConda(d) /\ HasTools(d)
            /\ "python" \in d.build.tools.keys
            /\ d.build.tools.python = mamba_python_version
      [] OTHER -> "version" \notin d.python.keys \/ IsStr(d.python.version)

C10_Unchanged ==
    /\ Last.raised = "none"
    /\ ~Last.migration_applied
    /\ LastOut = Last.pre
    /\ DocValue(heap, Last.input) = Last.pre

\* C10 (as stated): whenever a migrator finds its target already in the
\* desired state, migrate returns applied=false with a document equal to the
\* input and raises nothing.
C10_NotApplicableNoError ==
    (Called /\ NotApplicable(Last.migrator, Last.pre)) => C10_Unchanged

\* C10 (amended): the same, for an input that validates against the schema;
\* on an input that does not validate, migrate raises MigrationError from its
\* validation although do_migrate changed nothing.
C10_NotApplicableValidInput ==
    (Called /\ NotApplicable(Last.migrator, Last.pre)) =>
        IF Last.pre_valid
        THEN C10_Unchanged
        ELSE /\ Last.raised = "MigrationError"
             /\ Last.raised_in = "validate"
             /\ DocValue(heap, Last.input) = Last.pre

C10_Witness ==
    /\ LastReturned
    /\ Last.migrator = "UseBuildTools"
    /\ NotApplicable(Last.migrator, Last.pre)
    /\ Last.pre_valid
    /\ ~Last.migration_applied


\* the hard preconditions of the migrator `name` fail on the document d
PreconditionFails(name, d) ==
    \/ name \in {"UseBuildTools", "UseMamba"} /\ ~IsV2(d)
    \/ name = "UseMamba" /\ IsV2(d) /\ ~IsConda(d)

\* C11: UseBuildTools and UseMamba raise MigrationError for every document
\* whose version is below 2 (a missing version counts as 1), UseMamba also for
\* every version-2 document without a conda key; nothing is transformed: the
\* heap, and so the document, is as it was before the call.
C11_HardPreconditions ==
    (Called /\ PreconditionFails(Last.migrator, Last.pre)) =>
        /\ Last.raised = "MigrationError"
        /\ Last.raised_in = "do_migrate"
        /\ pc = "raised" /\ raised = "MigrationError"
        /\ heap = Last.pre_heap
        /\ DocValue(heap, Last.input) = Last.pre

C11_Witness ==
    /\ Called
    /\ Last.migrator = "UseBuildTools"
    /\ "version" \notin Last.pre.keys
    /\ Last.raised = "MigrationError"


\* build.tools.python of the document d, NoVal when it is not set
ToolsPythonOf(d) ==
    IF HasTools(d) /\ "python" \in d.build.tools.keys THEN d.build.tools.python
    ELSE NoVal

HasMarker(v) == IsStr(v) /\ StrContains(S_miniconda, v.s)
C12_Case == Called /\ Last.migrator = "UseMamba" /\ IsV2(Last.pre) /\ IsConda(Last.pre)
C12_Raised == Last.raised = "MigrationError" /\ Last.raised_in = "do_migrate"

\* C12 (as stated): UseMamba fails with MigrationError for every version-2
\* Conda document whose build.tools.python is absent or is a string without
\* the marker "miniconda": the marker check comes before the
\* already-migrated check.
C12_MarkerCheckFirst ==
    (C12_Case /\ (ToolsPythonOf(Last.pre) = NoVal
                  \/ (IsStr(ToolsPythonOf(Last.pre)) /\ ~HasMarker(ToolsPythonOf(Last.pre))))) =>
        C12_Raised

\* C12 (amended): the already-migrated check comes first.  UseMamba returns
\* applied=false from do_migrate when build.tools.python is "mambaforge-4.10";
\* it raises MigrationError exactly when build.tools.python is absent or is
\* another string without the marker; a value that is not a string makes the
\* `in` test raise TypeError.
C12_AlreadyCheckFirst ==
    C12_Case =>
        LET v == ToolsPythonOf(Last.pre)
        IN  /\ v = mamba_python_version =>
                  Last.raised_in # "do_migrate" /\ ~Last.migration_applied
            /\ C12_Raised <=>
                  (v = NoVal \/ (IsStr(v) /\ ~HasMarker(v) /\ v # mamba_python_version))
            /\ Last.raised = "TypeError" <=> (v # NoVal /\ ~IsStr(v))

C12_Witness ==
    /\ C12_Case
    /\ ToolsPythonOf(Last.pre) = StrVal(S_39)
    /\ C12_Raised


C13_Case ==
    /\ C12_Case
    /\ HasMarker(ToolsPythonOf(Last.pre))
    /\ ~StrContains(S_mamba, ToolsPythonOf(Last.pre).s)

\* the input with build.tools.python set to "mambaforge-4.10", all else as it was
C13_Expected == [Last.pre EXCEPT !.build.tools.python = mamba_python_version]

\* C13 (as stated): for every version-2 Conda document whose
\* build.tools.python contains "miniconda" and is not already migrated,
\* migrate returns applied=true and a document that differs from the input in
\* build.tools.python = "mambaforge-4.10" only.
C13_UseMambaReturns ==
    C13_Case =>
        /\ Last.raised = "none"
        /\ Last.migration_applied
        /\ LastOut = C13_Expected

\* C13 (amended): do_migrate always produces that document with applied=true;
\* migrate returns it when the input validates and raises MigrationError from
\* its validation when the input does not.
C13_UseMambaProduces ==
    C13_Case =>
        /\ LastProduced
        /\ Last.migration_applied
        /\ LastOut = C13_Expected
        /\ Last.raised = IF Last.pre_valid THEN "none" ELSE "MigrationError"

C13_Witness ==
    /\ C13_Case
    /\ LastReturned
    /\ Last.migration_applied
    /\ LastOut.build.tools.python = mamba_python_version


StrOrAbsent(v) == v = NoVal \/ IsStr(v)

\* C14: build.tools.python is a string in every document a migrator returns,
\* and in the document a pipeline of migrators returns, also when the input's
\* python.version is a bare number.
C14_ToolsPythonIsString ==
    /\ LastReturned => StrOrAbsent(ToolsPythonOf(LastOut))
    /\ result.returned => StrOrAbsent(ToolsPythonOf(DocValue(heap, result.new_config)))

\* UseBuildTools carried a bare number into build.tools.python and the
\* validation in migrate refused the document
C14_Witness ==
    /\ Called
    /\ Last.migrator = "UseBuildTools"
    /\ "python" \in Last.pre.keys
    /\ "version" \in Last.pre.python.keys
    /\ Last.pre.python.version.t = "float"
    /\ Last.raised_in = "validate"
    /\ ToolsPythonOf(LastOut).t = "float"


-----------------------------------------------------------------------------
(* Import time: the class statements that derive from Migrator run one     *)
(* after the other; each one calls Migrator.__init_subclass__.             *)

\* migrate_config has not been entered: none of its state exists yet
NotEntered ==
    /\ heap = EmptyHeap
    /\ config = 0
    /\ new_config = 0
    /\ applied = << >>
    /\ raised = "none"
    /\ outcome = "none"
    /\ published = FALSE
    /\ result = NoResult
    /\ orig = NoDocument
    /\ calls = << >>

\* class Migrator: registry = {}
InitRegistry ==
    /\ NotEntered
    /\ migrators = << >>
    /\ dry_run = TRUE
    /\ pc = "import"
    /\ classes = << >>
    /\ registry = EmptyRegistry
    /\ migrator_names = << >>
    /\ dump = NoDump

\* class <name>(Migrator): ... runs __init_subclass__ for the new class
DefineSubclass ==
    /\ pc = "import"
    /\ Len(classes) < MaxClasses
    /\ \E name \in Registry :
        /\ classes' = Append(classes, name)
        /\ registry' = init_subclass(registry, name, Len(classes) + 1)
    /\ UNCHANGED <<heap, config, new_config, applied, migrators, dry_run, pc, raised,
                   outcome, published, result, orig, calls, migrator_names, dump>>

NextRegistry == DefineSubclass

RegistrySpec == InitRegistry /\ [][NextRegistry]_vars

\* C15: no duplicate names: once two classes with one name have been defined,
\* the import has failed and the registry still holds the earlier class.
C15_NoDuplicateNames ==
    \A i, j \in 1..Len(classes) :
        (i < j /\ classes[i] = classes[j]) =>
            /\ raised # "none"
            /\ registry[classes[i]] # j


-----------------------------------------------------------------------------
(* cli.main: the migrator names are parsed while the arguments of          *)
(* migrate_config are evaluated; migrate_config then fetches and loads the *)
(* document and runs the pipeline.                                         *)

\* the names a caller may write in --migrator-names
InputNames == Registry \cup {"", "Unknown"}

InputNameLists == UNION {[1..n -> InputNames] : n \in 1..MaxPipeline}

\* variant: names missing from the registry are left out
parse_migrators_skip_unknown(names, reg, cls) ==
    LET known == SelectSeq(names, LAMBDA n : n \in DOMAIN reg)
    IN  [raised |-> "none", migrators |-> [i \in 1..Len(known) |-> cls[reg[known[i]]]]]

\* parse_migrators: Migrator.registry[migrator_name] for each name, in order
parse_migrators(names, reg, cls) ==
    IF \E i \in 1..Len(names) : names[i] \notin DOMAIN reg
    THEN [raised |-> "KeyError", migrators |-> << >>]
    ELSE [raised |-> "none", migrators |-> [i \in 1..Len(names) |-> cls[reg[names[i]]]]]

InitCli ==
    /\ NotEntered
    /\ migrators = << >>
    /\ dry_run \in BOOLEAN
    /\ pc = "parse"
    /\ classes = ModuleClasses
    /\ registry = RegistryAfter(ModuleClasses)
    /\ migrator_names \in InputNameLists
    /\ dump = NoDump

\* main: migrators=parse_migrators(migrator_names)
ParseMigrators ==
    /\ pc = "parse"
    /\ LET r == parse_migrators(migrator_names, registry, classes)
       IN  IF r.raised # "none"
           THEN /\ pc' = "raised"
                /\ raised' = r.raised
                /\ UNCHANGED migrators
           ELSE /\ pc' = "load"
                /\ migrators' = r.migrators
                /\ UNCHANGED raised
    /\ UNCHANGED <<heap, config, new_config, applied, dry_run, outcome, published,
                   result, orig, calls, aux>>

\* migrate_config up to apply_migrators: the repository is queried and its
\* configuration file is fetched and parsed
LoadConfig ==
    /\ pc = "load"
    /\ Loaded(heap')
    /\ config' = 1
    /\ new_config' = 1
    /\ orig' = DocValue(heap', 1)
    /\ pc' = "apply"
    /\ UNCHANGED <<applied, migrators, dry_run, raised, outcome, published, result,
                   calls, aux>>

NextCli ==
    \/ ParseMigrators
    \/ LoadConfig
    \/ Next

CliSpec == InitCli /\ [][NextCli]_vars

HasUnknownName == \E i \in 1..Len(migrator_names) : migrator_names[i] \notin DOMAIN registry

\* no repository was contacted, no document loaded, no migrator run
NothingTouched ==
    /\ heap = EmptyHeap
    /\ calls = << >>
    /\ migrators = << >>
    /\ ~published

\* C16 (as stated): a name absent from the registry fails with
\* UnknownMigratorError in parse_migrators, before anything is contacted,
\* loaded or transformed, and no migrator is run.
C16_UnknownMigratorError ==
    (HasUnknownName /\ pc # "parse") =>
        /\ pc = "raised"
        /\ raised = "UnknownMigratorError"
        /\ NothingTouched

\* C16 (amended): the failure is the KeyError of the registry lookup.
C16_UnknownNameKeyError ==
    /\ (HasUnknownName /\ pc # "parse") =>
        /\ pc = "raised"
        /\ raised = "KeyError"
        /\ NothingTouched
    /\ raised = "KeyError" => HasUnknownName

\* the second of two names is unknown: the first one is never run
C16_Witness ==
    /\ pc = "raised"
    /\ raised = "KeyError"
    /\ Len(migrator_names) = 2
    /\ migrator_names[1] \in DOMAIN registry
    /\ NothingTouched


-----------------------------------------------------------------------------
(* config.RTDDumper: yaml.dump(new_config, Dumper=RTDDumper).  Every dict  *)
(* of the document, the top-level one and the nested ones, is represented  *)
(* by represent_dict_custom_order.                                         *)

SORTED_KEYS ==
    <<"version", "build", "sphinx", "python", "method", "path",
      "extra_requirements", "conda", "formats">>

\* the characters of the keys, in code point order
Alphabet ==
    <<"_", "a", "b", "c", "d", "e", "f", "g", "h", "i", "j", "k", "l", "m",
      "n", "o", "p", "q", "r", "s", "t", "u", "v", "w", "x", "y", "z">>

\* the keys as Python sees them: sequences of characters
Spell ==
    [version            |-> <<"v", "e", "r", "s", "i", "o", "n">>,
     build              |-> <<"b", "u", "i", "l", "d">>,
     sphinx             |-> <<"s", "p", "h", "i", "n", "x">>,
     python             |-> <<"p", "y", "t", "h", "o", "n">>,
     method             |-> <<"m", "e", "t", "h", "o", "d">>,
     path               |-> <<"p", "a", "t", "h">>,
     extra_requirements |-> <<"e", "x", "t", "r", "a", "_", "r", "e", "q", "u", "i", "r", "e", "m", "e", "n", "t", "s">>,
     conda              |-> <<"c", "o", "n", "d", "a">>,
     formats            |-> <<"f", "o", "r", "m", "a", "t", "s">>,
     mkdocs             |-> <<"m", "k", "d", "o", "c", "s">>,
     submodules         |-> <<"s", "u", "b", "m", "o", "d", "u", "l", "e", "s">>,
     requirements       |-> <<"r", "e", "q", "u", "i", "r", "e", "m", "e", "n", "t", "s">>]

CodePoint(c) == CHOOSE i \in 1..Len(Alphabet) : Alphabet[i] = c

RECURSIVE StrLess(_, _)
\* a < b on Python strings
StrLess(a, b) ==
    IF a = << >> THEN b # << >>
    ELSE IF b = << >> THEN FALSE
    ELSE IF a[1] = b[1] THEN StrLess(Tail(a), Tail(b))
    ELSE CodePoint(a[1]) < CodePoint(b[1])

RECURSIVE SortedBy(_, _)
\* sorted(keys, key=rank), for a rank without ties
SortedBy(keys, rank) ==
    IF keys = {} THEN << >>
    ELSE LET first == CHOOSE k \in keys : \A o \in keys : rank[k] <= rank[o]
         IN  <<first>> \o SortedBy(keys \ {first}, rank)

InSortedKeys(k) == \E i \in 1..Len(SORTED_KEYS) : SORTED_KEYS[i] = k

\* rtd_key_sorting: SORTED_KEYS.index(item[0]); ValueError when it is absent
rtd_key_sorting(k) == CHOOSE i \in 1..Len(SORTED_KEYS) : SORTED_KEYS[i] = k

\* yaml's represent_dict on a dict: sort_keys is on, the keys come out sorted
represent_dict(keys) ==
    SortedBy(keys, [k \in keys |-> Cardinality({o \in keys : StrLess(Spell[o], Spell[k])})])

\* RTDDumper.represent_dict_custom_order: the order the keys of one dict are
\* written in
represent_dict_custom_order(keys) ==
    IF \A k \in keys : InSortedKeys(k)
    THEN SortedBy(keys, [k \in keys |-> rtd_key_sorting(k)])
    ELSE represent_dict(keys)

\* top-level keys of the documents: the recognized ones and two others
InputTopKeys == {"version", "build", "sphinx", "python", "conda", "formats",
                 "mkdocs", "submodules"}

\* keys of an entry of python.install
InputInstallKeys == {"method", "path", "extra_requirements", "requirements"}

InitDump ==
    /\ NotEntered
    /\ migrators = << >>
    /\ dry_run \in BOOLEAN
    /\ pc = "dump"
    /\ classes = ModuleClasses
    /\ registry = RegistryAfter(ModuleClasses)
    /\ migrator_names = << >>
    /\ \E top \in SUBSET InputTopKeys, nested \in SUBSET InputInstallKeys :
        /\ "python" \in top \/ nested = {}
        /\ dump = [NoDump EXCEPT !.top = top, !.nested = nested]

\* yaml_new_config = dump(new_config, Dumper=RTDDumper)
Dump ==
    /\ pc = "dump"
    /\ dump' = [dump EXCEPT !.done = TRUE,
                            !.out_top = represent_dict_custom_order(dump.top),
                            !.out_nested = represent_dict_custom_order(dump.nested)]
    /\ pc' = "done"
    /\ UNCHANGED <<heap, config, new_config, applied, migrators, dry_run, raised,
                   outcome, published, result, orig, calls, classes, registry,
                   migrator_names>>

NextDump == Dump

DumpSpec == InitDump /\ [][NextDump]_vars

\* C17: in the serialized document the recognized top-level keys keep the
\* relative order of SORTED_KEYS, whatever other top-level keys there are,
\* and the keys of a nested mapping come in the serializer's default order.
C17_SerializedKeyOrder ==
    dump.done =>
        /\ \A i, j \in 1..Len(dump.out_top) :
            (i < j /\ InSortedKeys(dump.out_top[i]) /\ InSortedKeys(dump.out_top[j]))
                => rtd_key_sorting(dump.out_top[i]) < rtd_key_sorting(dump.out_top[j])
        /\ dump.out_nested = represent_dict(dump.nested)


\* C18: whenever apply_migrators aborts with MigrationError after at least
\* one step has succeeded, the document the caller passed in has the value
\* it had before the call.
C18_AbortLeavesOriginalIntact ==
    (pc = "raised" /\ raised = "MigrationError" /\ Len(calls) >= 2)
        => DocValue(heap, config) = orig

====
